---- MODULE Spec2Model ----
(***************************************************************************)
(* Model of the Bigtable AccountsDb plugin entry point                     *)
(* (src/src/accountsdb_plugin_bigtable.rs): the AccountsDbPluginBigtable   *)
(* struct, its on_load / on_unload life cycle and the five event           *)
(* callbacks.  AccountsSelector, TransactionSelector and                   *)
(* AsyncBigtableClient live in modules of the crate that are not part of   *)
(* the sources at hand; they are modelled from the specification.          *)
(***************************************************************************)
EXTENDS Integers, Sequences, FiniteSets, TLC

VARIABLES client, accounts_selector, transaction_selector,
          loaded, last, aborted, calls,
          host, workers, lane, backend, submitted, startup_done, reported

\* inside the client: the host thread's position in a client call, the
\* writer workers, the slot-status lane, what the backend has observed,
\* the calls the host has made, whether the startup phase is over and the
\* deferred failures that have been reported
pipe == <<host, workers, lane, backend, submitted, startup_done, reported>>

vars == <<client, accounts_selector, transaction_selector,
          loaded, last, aborted, calls, pipe>>

(* ----------------------------- bounds ---------------------------------- *)

\* number of host calls explored in one behaviour
MaxCalls == 3

\* number of host calls explored in one behaviour of the pipeline
MaxPipelineCalls == 4

\* the configured thread counts range over 1..MaxThreads
MaxThreads == 2

\* the configured batch_size
BatchSize == 2

\* slots range over 1..MaxSlot
MaxSlot == 2

(* ------------------------- Option<T> and JSON -------------------------- *)

None == [tag |-> "None"]

Some(v) == [tag |-> "Some", val |-> v]

\* serde_json::Value, as far as the plugin inspects it
Null == [t |-> "null"]

Str(s) == [t |-> "string", s |-> s]

Num == [t |-> "number"]

Bool(b) == [t |-> "bool", b |-> b]

Arr(seq) == [t |-> "array", a |-> seq]

Obj(fields) == [t |-> "object", f |-> fields]

\* serde_json's Index<&str>: Null for a missing key or a non-object
Index(v, key) ==
    IF v.t = "object" /\ key \in DOMAIN v.f THEN v.f[key] ELSE Null

(* ------------------------------ inputs --------------------------------- *)

Pubkeys == {"A", "B"}

Owners == {"O1", "O2"}

Slots == 1..MaxSlot

SlotStatuses == {"Processed", "Confirmed", "Rooted"}

\* the messages a failing client call may carry
ClientErrors == {"Transient", "Permanent"}

Wildcard == Arr(<<Str("*")>>)

AccountsSections ==
    { Null,
      Obj([accounts |-> Wildcard]),
      Obj([accounts |-> Arr(<<Str("A")>>), owners |-> Arr(<<Str("O1")>>)]),
      Obj([accounts |-> Str("*"), owners |-> Arr(<< >>)]),
      Obj([accounts |-> Arr(<<Str("A"), Num>>)]) }

TransactionSections ==
    { Null,
      Obj([mentions |-> Wildcard]),
      Obj([mentions |-> Arr(<<Str("all_votes"), Str("A")>>)]),
      Obj([mentions |-> Arr(<<Num>>)]) }

\* a config file: whether it can be opened and read, whether its contents
\* are JSON at all, and the keys of the JSON document the plugin looks at
\* (a key that is absent reads as Null)
WellFormed(a, t, th, p) ==
    [file |-> "ok", json |-> TRUE,
     doc |-> Obj([accounts_selector |-> a, transaction_selector |-> t,
                  threads |-> th, panic_on_db_errors |-> p])]

ConfigFiles ==
    { WellFormed(a, t, Null, Null) :
        a \in AccountsSections, t \in TransactionSections }
    \cup { WellFormed(Obj([accounts |-> Wildcard]), Obj([mentions |-> Wildcard]),
                      c[1], c[2]) :
             c \in { <<Num, Bool(TRUE)>>, <<Num, Bool(FALSE)>>,
                     <<Str("ten"), Null>>, <<Null, Str("yes")>> } }
    \cup { [file |-> f, json |-> TRUE, doc |-> Null] : f \in {"missing", "unreadable"} }
    \cup { [file |-> "ok", json |-> FALSE, doc |-> Null] }

(* ------------------ AccountsSelector / TransactionSelector ------------- *)

Range(seq) == { seq[i] : i \in DOMAIN seq }

\* AccountsSelector::default(): nothing selected, disabled
AccountsSelector_default ==
    [accounts |-> {}, owners |-> {}, select_all_accounts |-> FALSE]

\* AccountsSelector::new(accounts, owners)
AccountsSelector_new(accounts, owners) ==
    IF "*" \in Range(accounts)
    THEN [accounts |-> {}, owners |-> {}, select_all_accounts |-> TRUE]
    ELSE [accounts |-> Range(accounts), owners |-> Range(owners),
          select_all_accounts |-> FALSE]

is_account_selected(selector, pubkey, owner) ==
    \/ selector.select_all_accounts
    \/ pubkey \in selector.accounts
    \/ owner \in selector.owners

AccountsSelector_is_enabled(selector) ==
    \/ selector.select_all_accounts
    \/ selector.accounts # {}
    \/ selector.owners # {}

\* TransactionSelector::default(): nothing selected, disabled
TransactionSelector_default ==
    [mentioned_addresses |-> {}, select_all_transactions |-> FALSE,
     select_all_vote_transactions |-> FALSE]

\* TransactionSelector::new(mentions)
TransactionSelector_new(mentions) ==
    IF "*" \in Range(mentions)
    THEN [mentioned_addresses |-> {}, select_all_transactions |-> TRUE,
          select_all_vote_transactions |-> FALSE]
    ELSE [mentioned_addresses |-> Range(mentions) \ {"all_votes"},
          select_all_transactions |-> FALSE,
          select_all_vote_transactions |-> "all_votes" \in Range(mentions)]

is_transaction_selected(selector, is_vote, account_keys) ==
    \/ selector.select_all_transactions
    \/ selector.select_all_vote_transactions /\ is_vote
    \/ selector.mentioned_addresses \cap account_keys # {}

TransactionSelector_is_enabled(selector) ==
    \/ selector.select_all_transactions
    \/ selector.select_all_vote_transactions
    \/ selector.mentioned_addresses # {}

(* ------------------- selector construction from config ----------------- *)

\* the outcome of a computation that may panic (Option::unwrap on None)
Panic == [panic |-> TRUE]

Value(v) == [panic |-> FALSE, v |-> v]

\* if v.is_array() { v.as_array().unwrap().iter()
\*                     .map(|val| val.as_str().unwrap().to_string()).collect() }
\* else { Vec::default() }
StringsOf(v) ==
    IF v.t = "array"
    THEN IF \A i \in DOMAIN v.a : v.a[i].t = "string"
         THEN Value([i \in DOMAIN v.a |-> v.a[i].s])
         ELSE Panic
    ELSE Value(<< >>)

\* mutant: an absent accounts_selector section selects every account
create_accounts_selector_from_config_absent_selects_all(config) ==
    LET section == Index(config, "accounts_selector") IN
    IF section = Null
    THEN Value(AccountsSelector_new(<<"*">>, << >>))
    ELSE LET accounts == StringsOf(Index(section, "accounts"))
             owners == StringsOf(Index(section, "owners"))
         IN IF accounts.panic \/ owners.panic
            THEN Panic
            ELSE Value(AccountsSelector_new(accounts.v, owners.v))

create_accounts_selector_from_config(config) ==
    LET section == Index(config, "accounts_selector") IN
    IF section = Null
    THEN Value(AccountsSelector_default)
    ELSE LET accounts == StringsOf(Index(section, "accounts"))
             owners == StringsOf(Index(section, "owners"))
         IN IF accounts.panic \/ owners.panic
            THEN Panic
            ELSE Value(AccountsSelector_new(accounts.v, owners.v))

create_transaction_selector_from_config(config) ==
    LET section == Index(config, "transaction_selector") IN
    IF section = Null
    THEN Value(TransactionSelector_default)
    ELSE LET mentions == StringsOf(Index(section, "mentions"))
         IN IF mentions.panic
            THEN Panic
            ELSE Value(TransactionSelector_new(mentions.v))

(* -------------------------- AsyncBigtableClient ------------------------ *)

\* serde_json::from_str::<AccountsDbPluginBigtableConfig>: every field is
\* an Option, so a key may be absent, but a key that is present must have
\* the field's type
ConfigDeserializes(doc) ==
    /\ doc.t = "object"
    /\ Index(doc, "threads").t \in {"null", "number"}
    /\ Index(doc, "panic_on_db_errors").t \in {"null", "bool"}

\* config.panic_on_db_errors, default false
panic_on_db_errors(doc) ==
    Index(doc, "panic_on_db_errors") = Bool(TRUE)

\* AsyncBigtableClient::new(&config): a Connected client; id tells the
\* clients of one behaviour apart, joins counts the calls of join()
AsyncBigtableClient_new(doc, id) ==
    [id |-> id, state |-> "Connected",
     panic_on_db_errors |-> panic_on_db_errors(doc), joins |-> 0]

\* client.join(): drain and close
AsyncBigtableClient_join(c) ==
    [c EXCEPT !.state = "Closed", !.joins = @ + 1]

OkOutcome == [r |-> "ok"]

ErrOutcome(e) == [r |-> "err", e |-> e]

FatalOutcome == [r |-> "fatal"]

\* mutant: a write failure is returned to the caller whatever the policy
ClientOutcomes_policy_ignored(c) ==
    IF c.state = "Closed"
    THEN { ErrOutcome("Closed") }
    ELSE { OkOutcome } \cup { ErrOutcome(e) : e \in ClientErrors }

\* what a submit call on the client may produce: a closed client accepts
\* nothing; a write failure is returned to the caller when the fatal policy
\* is inactive and ends the process when it is active
ClientOutcomes(c) ==
    IF c.state = "Closed"
    THEN { ErrOutcome("Closed") }
    ELSE IF c.panic_on_db_errors
         THEN { OkOutcome, FatalOutcome }
         ELSE { OkOutcome } \cup { ErrOutcome(e) : e \in ClientErrors }

\* the client was not called, so it produced nothing
NoOutcome == [r |-> "none"]

\* the outcomes to enumerate for a callback on the plugin's client field
Outcomes(cl) ==
    IF cl = None THEN { OkOutcome } ELSE ClientOutcomes(cl.val)

(* --------------------- results and client calls ------------------------ *)

Ok == [kind |-> "Ok"]

\* the call panicked or the process was ended: nothing is returned
NoReturn == [kind |-> "NoReturn"]

\* AccountsDbPluginError::Custom(Box::new(
\*     AccountsDbPluginBigtableError::DataStoreConnectionError { msg }))
DataStoreConnectionError ==
    [kind |-> "Custom", inner |-> "DataStoreConnectionError",
     msg |-> <<"There is no connection to the Bigtable database.">>]

\* msg: format!("<text> Error: {:?}", err)
AccountsUpdateError(text, err) ==
    [kind |-> "AccountsUpdateError", msg |-> <<text, err>>]

SlotStatusUpdateError(text, err) ==
    [kind |-> "SlotStatusUpdateError", msg |-> <<text, err>>]

NoCall == [fn |-> "none"]

ClientCall(fn, args) == [fn |-> fn, args |-> args]

(* ------------------------- the event callbacks ------------------------- *)

\* mutant: the result of is_account_selected is not looked at
update_account_result_unfiltered(selector, cl, account, slot, is_startup, outcome) ==
    IF selector = None
    THEN [ret |-> Ok, call |-> NoCall]
    ELSE IF cl = None
    THEN [ret |-> DataStoreConnectionError, call |-> NoCall]
    ELSE [call |-> ClientCall("update_account",
                      [account |-> account, slot |-> slot, is_startup |-> is_startup]),
          ret |-> IF outcome.r = "fatal" THEN NoReturn
                  ELSE IF outcome.r = "err"
                  THEN AccountsUpdateError(
                         "Failed to persist the update of account to the Bigtable database.",
                         outcome.e)
                  ELSE Ok]

\* mutant: the client's error is dropped and success is returned
update_account_result_error_swallowed(selector, cl, account, slot, is_startup, outcome) ==
    IF selector = None
    THEN [ret |-> Ok, call |-> NoCall]
    ELSE IF ~is_account_selected(selector.val, account.pubkey, account.owner)
    THEN [ret |-> Ok, call |-> NoCall]
    ELSE IF cl = None
    THEN [ret |-> DataStoreConnectionError, call |-> NoCall]
    ELSE [call |-> ClientCall("update_account",
                      [account |-> account, slot |-> slot, is_startup |-> is_startup]),
          ret |-> IF outcome.r = "fatal" THEN NoReturn ELSE Ok]

\* update_account: the selector is consulted first, then the client
update_account_result(selector, cl, account, slot, is_startup, outcome) ==
    IF selector = None
    THEN [ret |-> Ok, call |-> NoCall]
    ELSE IF ~is_account_selected(selector.val, account.pubkey, account.owner)
    THEN [ret |-> Ok, call |-> NoCall]
    ELSE IF cl = None
    THEN [ret |-> DataStoreConnectionError, call |-> NoCall]
    ELSE [call |-> ClientCall("update_account",
                      [account |-> account, slot |-> slot, is_startup |-> is_startup]),
          ret |-> IF outcome.r = "fatal" THEN NoReturn
                  ELSE IF outcome.r = "err"
                  THEN AccountsUpdateError(
                         "Failed to persist the update of account to the Bigtable database.",
                         outcome.e)
                  ELSE Ok]

\* mutant: a missing client is reported as success
update_slot_status_result_absent_ok(cl, slot, parent, status, outcome) ==
    IF cl = None
    THEN [ret |-> Ok, call |-> NoCall]
    ELSE [call |-> ClientCall("update_slot_status",
                      [slot |-> slot, parent |-> parent, status |-> status]),
          ret |-> IF outcome.r = "fatal" THEN NoReturn
                  ELSE IF outcome.r = "err"
                  THEN SlotStatusUpdateError(
                         "Failed to persist the update of slot to the Bigtable database.",
                         outcome.e)
                  ELSE Ok]

\* mutant: only the Rooted status is sent to the client
update_slot_status_result_rooted_only(cl, slot, parent, status, outcome) ==
    IF cl = None
    THEN [ret |-> DataStoreConnectionError, call |-> NoCall]
    ELSE IF status # "Rooted"
    THEN [ret |-> Ok, call |-> NoCall]
    ELSE [call |-> ClientCall("update_slot_status",
                      [slot |-> slot, parent |-> parent, status |-> status]),
          ret |-> IF outcome.r = "fatal" THEN NoReturn
                  ELSE IF outcome.r = "err"
                  THEN SlotStatusUpdateError(
                         "Failed to persist the update of slot to the Bigtable database.",
                         outcome.e)
                  ELSE Ok]

update_slot_status_result(cl, slot, parent, status, outcome) ==
    IF cl = None
    THEN [ret |-> DataStoreConnectionError, call |-> NoCall]
    ELSE [call |-> ClientCall("update_slot_status",
                      [slot |-> slot, parent |-> parent, status |-> status]),
          ret |-> IF outcome.r = "fatal" THEN NoReturn
                  ELSE IF outcome.r = "err"
                  THEN SlotStatusUpdateError(
                         "Failed to persist the update of slot to the Bigtable database.",
                         outcome.e)
                  ELSE Ok]

\* mutant: the end of startup is acknowledged without telling the client
notify_end_of_startup_result_not_forwarded(cl, outcome) ==
    IF cl = None
    THEN [ret |-> DataStoreConnectionError, call |-> NoCall]
    ELSE [ret |-> Ok, call |-> NoCall]

notify_end_of_startup_result(cl, outcome) ==
    IF cl = None
    THEN [ret |-> DataStoreConnectionError, call |-> NoCall]
    ELSE [call |-> ClientCall("notify_end_of_startup", << >>),
          ret |-> IF outcome.r = "fatal" THEN NoReturn
                  ELSE IF outcome.r = "err"
                  THEN SlotStatusUpdateError(
                         "Failed to notify the end of startup for accounts notifications.",
                         outcome.e)
                  ELSE Ok]

\* mutant: the result of is_transaction_selected is not looked at
notify_transaction_result_unfiltered(selector, cl, transaction_info, slot, outcome) ==
    IF cl = None
    THEN [ret |-> DataStoreConnectionError, call |-> NoCall]
    ELSE IF selector = None
    THEN [ret |-> Ok, call |-> NoCall]
    ELSE [call |-> ClientCall("log_transaction_info",
                      [transaction_info |-> transaction_info, slot |-> slot]),
          ret |-> IF outcome.r = "fatal" THEN NoReturn
                  ELSE IF outcome.r = "err"
                  THEN SlotStatusUpdateError(
                         "Failed to persist the transaction info to the Bigtable database.",
                         outcome.e)
                  ELSE Ok]

\* notify_transaction: the client is consulted first, then the selector
notify_transaction_result(selector, cl, transaction_info, slot, outcome) ==
    IF cl = None
    THEN [ret |-> DataStoreConnectionError, call |-> NoCall]
    ELSE IF selector = None
    THEN [ret |-> Ok, call |-> NoCall]
    ELSE IF ~is_transaction_selected(selector.val, transaction_info.is_vote,
                                     transaction_info.account_keys)
    THEN [ret |-> Ok, call |-> NoCall]
    ELSE [call |-> ClientCall("log_transaction_info",
                      [transaction_info |-> transaction_info, slot |-> slot]),
          ret |-> IF outcome.r = "fatal" THEN NoReturn
                  ELSE IF outcome.r = "err"
                  THEN SlotStatusUpdateError(
                         "Failed to persist the transaction info to the Bigtable database.",
                         outcome.e)
                  ELSE Ok]

\* mutant: block metadata is accepted without being passed to the client
notify_block_metadata_result_not_forwarded(cl, block_info, outcome) ==
    IF cl = None
    THEN [ret |-> DataStoreConnectionError, call |-> NoCall]
    ELSE [ret |-> Ok, call |-> NoCall]

notify_block_metadata_result(cl, block_info, outcome) ==
    IF cl = None
    THEN [ret |-> DataStoreConnectionError, call |-> NoCall]
    ELSE [call |-> ClientCall("update_block_metadata", [block_info |-> block_info]),
          ret |-> IF outcome.r = "fatal" THEN NoReturn
                  ELSE IF outcome.r = "err"
                  THEN SlotStatusUpdateError(
                         "Failed to persist the update of block metadata to the Bigtable database.",
                         outcome.e)
                  ELSE Ok]

account_data_notifications_enabled ==
    IF accounts_selector = None THEN FALSE
    ELSE AccountsSelector_is_enabled(accounts_selector.val)

transaction_notifications_enabled ==
    IF transaction_selector = None THEN FALSE
    ELSE TransactionSelector_is_enabled(transaction_selector.val)

(* ----------------------------- on_load --------------------------------- *)

\* File::open(config_file)? / file.read_to_string(&mut contents)?
ConfigFileOpenError == [kind |-> "ConfigFileOpenError"]

ConfigFileReadError ==
    [kind |-> "ConfigFileReadError",
     msg |-> <<"The config file is not in the JSON format expected">>]

\* the error of AsyncBigtableClient::new(&config)?, passed on unchanged
AsyncBigtableClientNewError == [kind |-> "AsyncBigtableClientNewError"]

\* self is the plugin struct; connect_ok is whether the connections to the
\* Bigtable server can be established; id names the client created
on_load_result(self, config_file, connect_ok, id) ==
    LET unchanged == [client |-> self.client,
                      accounts_selector |-> self.accounts_selector,
                      transaction_selector |-> self.transaction_selector,
                      installed |-> {}]
        accounts == create_accounts_selector_from_config(config_file.doc)
        transactions == create_transaction_selector_from_config(config_file.doc)
    IN
    IF config_file.file # "ok"
    THEN [self |-> unchanged, ret |-> ConfigFileOpenError]
    ELSE IF ~config_file.json
    THEN [self |-> unchanged, ret |-> NoReturn]
    ELSE IF accounts.panic
    THEN [self |-> unchanged, ret |-> NoReturn]
    ELSE IF transactions.panic
    THEN [self |-> [unchanged EXCEPT !.accounts_selector = Some(accounts.v),
                                     !.installed = {"accounts_selector"}],
          ret |-> NoReturn]
    ELSE LET selected == [unchanged EXCEPT
                            !.accounts_selector = Some(accounts.v),
                            !.transaction_selector = Some(transactions.v),
                            !.installed = {"accounts_selector", "transaction_selector"}]
         IN IF ~ConfigDeserializes(config_file.doc)
            THEN [self |-> selected, ret |-> ConfigFileReadError]
            ELSE IF ~connect_ok
            THEN [self |-> selected, ret |-> AsyncBigtableClientNewError]
            ELSE [self |-> [selected EXCEPT
                              !.client = Some(AsyncBigtableClient_new(config_file.doc, id))],
                  ret |-> Ok]

on_load(config_file, connect_ok) ==
    /\ ~aborted
    /\ calls < MaxCalls
    /\ LET r == on_load_result(
                  [client |-> client, accounts_selector |-> accounts_selector,
                   transaction_selector |-> transaction_selector],
                  config_file, connect_ok, calls + 1)
       IN /\ client' = r.self.client
          /\ accounts_selector' = r.self.accounts_selector
          /\ transaction_selector' = r.self.transaction_selector
          /\ loaded' = [key \in DOMAIN loaded |->
                           IF key \in r.self.installed
                           THEN Some(Index(config_file.doc, key))
                           ELSE loaded[key]]
          /\ aborted' = (r.ret = NoReturn)
          /\ last' = [op |-> "on_load", args |-> config_file, selected |-> FALSE,
                      present |-> client # None, call |-> NoCall,
                      outcome |-> NoOutcome, ret |-> r.ret]
    /\ calls' = calls + 1
    /\ UNCHANGED pipe

(* ----------------------------- on_unload ------------------------------- *)

on_unload_result(cl) ==
    IF cl = None
    THEN [client |-> cl, call |-> NoCall]
    ELSE [client |-> Some(AsyncBigtableClient_join(cl.val)),
          call |-> ClientCall("join", << >>)]

on_unload ==
    /\ ~aborted
    /\ calls < MaxCalls
    /\ LET r == on_unload_result(client)
       IN /\ client' = r.client
          /\ last' = [op |-> "on_unload", args |-> << >>, selected |-> FALSE,
                      present |-> client # None, call |-> r.call,
                      outcome |-> NoOutcome, ret |-> Ok]
    /\ calls' = calls + 1
    /\ UNCHANGED <<accounts_selector, transaction_selector, loaded, aborted>>
    /\ UNCHANGED pipe

(* --------------------------- event actions ----------------------------- *)

\* mutant: a callback that got an error back discards the client
Callback_error_drops_client(op, args, selected, r, outcome) ==
    /\ ~aborted
    /\ calls < MaxCalls
    /\ last' = [op |-> op, args |-> args, selected |-> selected,
                present |-> client # None, call |-> r.call,
                outcome |-> IF r.call = NoCall THEN NoOutcome ELSE outcome,
                ret |-> r.ret]
    /\ aborted' = (r.ret = NoReturn)
    /\ calls' = calls + 1
    /\ client' = IF r.call # NoCall /\ outcome.r = "err" THEN None ELSE client
    /\ UNCHANGED <<accounts_selector, transaction_selector, loaded>>
    /\ UNCHANGED pipe

\* a callback that leaves the plugin struct alone; last records the call:
\* its arguments, whether the selector selected the event and whether a
\* client was present when it was made, the call it made to the client,
\* what the client produced and what the host got back
Callback(op, args, selected, r, outcome) ==
    /\ ~aborted
    /\ calls < MaxCalls
    /\ last' = [op |-> op, args |-> args, selected |-> selected,
                present |-> client # None, call |-> r.call,
                outcome |-> IF r.call = NoCall THEN NoOutcome ELSE outcome,
                ret |-> r.ret]
    /\ aborted' = (r.ret = NoReturn)
    /\ calls' = calls + 1
    /\ UNCHANGED <<client, accounts_selector, transaction_selector, loaded>>
    /\ UNCHANGED pipe

update_account(account, slot, is_startup, outcome) ==
    Callback("update_account",
             [account |-> account, slot |-> slot, is_startup |-> is_startup],
             /\ accounts_selector # None
             /\ is_account_selected(accounts_selector.val, account.pubkey, account.owner),
             update_account_result(accounts_selector, client, account, slot,
                                   is_startup, outcome),
             outcome)

update_slot_status(slot, parent, status, outcome) ==
    Callback("update_slot_status",
             [slot |-> slot, parent |-> parent, status |-> status], TRUE,
             update_slot_status_result(client, slot, parent, status, outcome),
             outcome)

notify_end_of_startup(outcome) ==
    Callback("notify_end_of_startup", << >>, TRUE,
             notify_end_of_startup_result(client, outcome), outcome)

notify_transaction(transaction_info, slot, outcome) ==
    Callback("notify_transaction",
             [transaction_info |-> transaction_info, slot |-> slot],
             /\ transaction_selector # None
             /\ is_transaction_selected(transaction_selector.val,
                                        transaction_info.is_vote,
                                        transaction_info.account_keys),
             notify_transaction_result(transaction_selector, client,
                                       transaction_info, slot, outcome),
             outcome)

notify_block_metadata(block_info, outcome) ==
    Callback("notify_block_metadata", [block_info |-> block_info], TRUE,
             notify_block_metadata_result(client, block_info, outcome), outcome)

\* the host asks whether it should send account data at all
call_account_data_notifications_enabled ==
    Callback("account_data_notifications_enabled", << >>, FALSE,
             [ret |-> [kind |-> "bool", b |-> account_data_notifications_enabled],
              call |-> NoCall],
             NoOutcome)

\* the host asks whether it should send transactions at all
call_transaction_notifications_enabled ==
    Callback("transaction_notifications_enabled", << >>, FALSE,
             [ret |-> [kind |-> "bool", b |-> transaction_notifications_enabled],
              call |-> NoCall],
             NoOutcome)

(* --------------------------- specification ----------------------------- *)

Accounts == [pubkey : Pubkeys, owner : Owners]

Transactions == [is_vote : BOOLEAN, account_keys : {{}, {"A"}, {"B"}}]

Blocks == [slot : Slots]

NoLast == [op |-> "none", args |-> << >>, selected |-> FALSE,
           present |-> FALSE, call |-> NoCall, outcome |-> NoOutcome, ret |-> Ok]

\* the host is in no call
Idle == [pc |-> "idle"]

\* no client has been created: no workers, nothing queued, nothing written
PipeInit ==
    /\ host = Idle
    /\ workers = << >>
    /\ lane = << >>
    /\ backend = << >>
    /\ submitted = << >>
    /\ startup_done = FALSE
    /\ reported = {}

\* AccountsDbPluginBigtable::new(): Self::default()
Init ==
    /\ client = None
    /\ accounts_selector = None
    /\ transaction_selector = None
    /\ loaded = [accounts_selector |-> None, transaction_selector |-> None]
    /\ last = NoLast
    /\ aborted = FALSE
    /\ calls = 0
    /\ PipeInit

Next ==
    \/ \E config_file \in ConfigFiles, connect_ok \in BOOLEAN :
          on_load(config_file, connect_ok)
    \/ on_unload
    \/ \E account \in Accounts, slot \in Slots, is_startup \in BOOLEAN,
          outcome \in Outcomes(client) :
          update_account(account, slot, is_startup, outcome)
    \/ \E slot \in Slots, parent \in {None, Some(1)}, status \in SlotStatuses,
          outcome \in Outcomes(client) :
          update_slot_status(slot, parent, status, outcome)
    \/ \E outcome \in Outcomes(client) : notify_end_of_startup(outcome)
    \/ \E transaction_info \in Transactions, slot \in Slots,
          outcome \in Outcomes(client) :
          notify_transaction(transaction_info, slot, outcome)
    \/ \E block_info \in Blocks, outcome \in Outcomes(client) :
          notify_block_metadata(block_info, outcome)
    \/ call_account_data_notifications_enabled
    \/ call_transaction_notifications_enabled

Spec == Init /\ [][Next]_vars

(* ------------------------- inside the client --------------------------- *)

\* a JSON number with its value
NumOf(n) == [t |-> "number", n |-> n]

\* config.threads, default 10
DefaultThreads == 10

Threads(doc) ==
    LET th == Index(doc, "threads")
    IN IF th.t = "number" /\ "n" \in DOMAIN th THEN th.n ELSE DefaultThreads

\* the configurations the pipeline is explored with: every account and
\* every transaction is selected, the fatal policy is inactive
PipelineConfigs ==
    { WellFormed(Obj([accounts |-> Wildcard]), Obj([mentions |-> Wildcard]),
                 NumOf(n), Null) : n \in 1..MaxThreads }

\* a worker: its startup batch buffer, the work it has been given and the
\* failures of its flushes that no call has reported yet
NewWorker == [buffer |-> << >>, queue |-> << >>, failed |-> << >>]

\* one event on its way to the backend; n numbers the host's calls
Entry(n, fn, key) == [n |-> n, fn |-> fn, key |-> key]

\* a unit of work: one event whose call is waiting for it, or a batch
Item(events, blocking) == [events |-> events, blocking |-> blocking]

\* the hash of an account address
AddressHash(pubkey) == IF pubkey = "A" THEN 0 ELSE 1

\* routing key = hash of the account address
Route(pubkey, n) == (AddressHash(pubkey) % n) + 1

\* mutant: a worker takes the newest unit of work first
NextInQueue_newest_first(queue) == Len(queue)

\* a worker or lane takes its work in the order it was given
NextInQueue(queue) == 1

RemoveAt(seq, i) == [j \in 1..(Len(seq) - 1) |-> IF j < i THEN seq[j] ELSE seq[j + 1]]

\* mutant: the newest startup event is put at the front of the buffer
Buffered_newest_first(worker, e) ==
    IF Len(worker.buffer) >= BatchSize
    THEN [worker EXCEPT !.queue = Append(@, Item(worker.buffer, FALSE)),
                        !.buffer = <<e>>]
    ELSE [worker EXCEPT !.buffer = <<e>> \o @]

\* a startup event is appended to the worker's buffer; a buffer that has
\* reached batch_size is flushed before the event is accepted
Buffered(worker, e) ==
    IF Len(worker.buffer) >= BatchSize
    THEN [worker EXCEPT !.queue = Append(@, Item(worker.buffer, FALSE)),
                        !.buffer = <<e>>]
    ELSE [worker EXCEPT !.buffer = Append(@, e)]

\* what is left in the buffer is handed over for writing
Flushed(worker) ==
    IF worker.buffer = << >>
    THEN worker
    ELSE [worker EXCEPT !.queue = Append(@, Item(worker.buffer, FALSE)),
                        !.buffer = << >>]

\* the barrier of notify_end_of_startup: no worker has work left
BarrierOpen == \A w \in DOMAIN workers : workers[w].queue = << >>

\* the backend observes the events of a unit of work, written by worker w
Written(item, w) ==
    [i \in DOMAIN item.events |->
        [n |-> item.events[i].n, fn |-> item.events[i].fn,
         key |-> item.events[i].key, worker |-> w]]

\* the outcomes of a write when the fatal policy is inactive
WriteOutcomes == { OkOutcome } \cup { ErrOutcome(e) : e \in ClientErrors }

\* the call has been made and has not returned
Pending == [kind |-> "Pending"]

\* the events the host delivers to the pipeline
PipelineAccounts == { a \in Accounts : a.owner = "O1" }

PipelineSlots == {1}

PipelineTransactions == { t \in Transactions : ~t.is_vote /\ t.account_keys = {"A"} }

PipelineBlocks == { b \in Blocks : b.slot \in PipelineSlots }

(* ----------------------- the host and the pipeline --------------------- *)

HostMayCall ==
    /\ ~aborted
    /\ host = Idle
    /\ calls < MaxPipelineCalls

\* the host delivers events once on_load has created the client
HostMayNotify == HostMayCall /\ client # None

\* the call returns to the host at once
Returns(op, args, selected, call, outcome, ret) ==
    /\ last' = [op |-> op, args |-> args, selected |-> selected,
                present |-> client # None, call |-> call,
                outcome |-> outcome, ret |-> ret]
    /\ submitted' = Append(submitted,
                           [n |-> calls + 1, op |-> op, args |-> args, ret |-> ret])
    /\ host' = Idle

\* the call waits for the client
Waits(op, args, selected, call) ==
    /\ host' = [pc |-> "waiting", n |-> calls + 1, op |-> op, args |-> args,
                selected |-> selected, present |-> client # None,
                call |-> call, outcome |-> NoOutcome]
    /\ submitted' = Append(submitted,
                           [n |-> calls + 1, op |-> op, args |-> args, ret |-> Pending])
    /\ UNCHANGED last

\* on_load, once, with a configuration of PipelineConfigs: the client
\* starts its workers
pipeline_on_load(config_file, connect_ok) ==
    /\ HostMayCall
    /\ client = None
    /\ LET r == on_load_result(
                  [client |-> client, accounts_selector |-> accounts_selector,
                   transaction_selector |-> transaction_selector],
                  config_file, connect_ok, calls + 1)
       IN /\ client' = r.self.client
          /\ accounts_selector' = r.self.accounts_selector
          /\ transaction_selector' = r.self.transaction_selector
          /\ loaded' = [key \in DOMAIN loaded |->
                           IF key \in r.self.installed
                           THEN Some(Index(config_file.doc, key))
                           ELSE loaded[key]]
          /\ workers' = IF r.ret = Ok
                        THEN [w \in 1..Threads(config_file.doc) |-> NewWorker]
                        ELSE workers
          /\ Returns("on_load", config_file, FALSE, NoCall, NoOutcome, r.ret)
    /\ calls' = calls + 1
    /\ UNCHANGED <<aborted, lane, backend, startup_done, reported>>

\* update_account; is_startup is true until the host has notified the end
\* of startup
pipeline_update_account(account, slot) ==
    /\ HostMayNotify
    /\ LET is_startup == ~startup_done
           args == [account |-> account, slot |-> slot, is_startup |-> is_startup]
           selected == /\ accounts_selector # None
                       /\ is_account_selected(accounts_selector.val,
                                              account.pubkey, account.owner)
           r == update_account_result(accounts_selector, client, account, slot,
                                      is_startup, OkOutcome)
           w == Route(account.pubkey, Len(workers))
           e == Entry(calls + 1, "update_account", account.pubkey)
       IN IF r.call = NoCall
          THEN /\ Returns("update_account", args, selected, r.call, NoOutcome, r.ret)
               /\ UNCHANGED <<workers, reported>>
          ELSE IF workers[w].failed # << >>
          THEN \* the call that touches the worker is told of its failed flush
               LET outcome == ErrOutcome(workers[w].failed[1].e)
               IN /\ Returns("update_account", args, selected, r.call, outcome,
                             update_account_result(accounts_selector, client, account,
                                                   slot, is_startup, outcome).ret)
                  /\ reported' = reported \cup
                                   { workers[w].failed[i].n : i \in DOMAIN workers[w].failed }
                  /\ workers' = [workers EXCEPT ![w].failed = << >>]
          ELSE IF is_startup
          THEN /\ workers' = [workers EXCEPT ![w] = Buffered(@, e)]
               /\ Returns("update_account", args, selected, r.call, OkOutcome, r.ret)
               /\ UNCHANGED reported
          ELSE /\ workers' = [workers EXCEPT ![w].queue = Append(@, Item(<<e>>, TRUE))]
               /\ Waits("update_account", args, selected, r.call)
               /\ UNCHANGED reported
    /\ calls' = calls + 1
    /\ UNCHANGED <<client, accounts_selector, transaction_selector, loaded, aborted,
                   lane, backend, startup_done>>

\* update_slot_status: the event goes to the slot-status lane
pipeline_update_slot_status(slot, status) ==
    /\ HostMayNotify
    /\ LET args == [slot |-> slot, parent |-> None, status |-> status]
           r == update_slot_status_result(client, slot, None, status, OkOutcome)
           e == Entry(calls + 1, "update_slot_status", [slot |-> slot, status |-> status])
       IN IF r.call = NoCall
          THEN /\ Returns("update_slot_status", args, TRUE, r.call, NoOutcome, r.ret)
               /\ UNCHANGED lane
          ELSE /\ lane' = Append(lane, Item(<<e>>, TRUE))
               /\ Waits("update_slot_status", args, TRUE, r.call)
    /\ calls' = calls + 1
    /\ UNCHANGED <<client, accounts_selector, transaction_selector, loaded, aborted,
                   workers, backend, startup_done, reported>>

\* notify_end_of_startup: every buffer is flushed and the call waits at
\* the barrier
pipeline_notify_end_of_startup ==
    /\ HostMayNotify
    /\ LET r == notify_end_of_startup_result(client, OkOutcome)
       IN IF r.call = NoCall
          THEN /\ Returns("notify_end_of_startup", << >>, TRUE, r.call, NoOutcome, r.ret)
               /\ UNCHANGED <<workers, startup_done>>
          ELSE /\ workers' = [w \in DOMAIN workers |-> Flushed(workers[w])]
               /\ startup_done' = TRUE
               /\ Waits("notify_end_of_startup", << >>, TRUE, r.call)
    /\ calls' = calls + 1
    /\ UNCHANGED <<client, accounts_selector, transaction_selector, loaded, aborted,
                   lane, backend, reported>>

\* notify_transaction and notify_block_metadata: the event is given to
\* some worker and the call waits for it
pipeline_forward(op, args, selected, r, key) ==
    /\ HostMayNotify
    /\ IF r.call = NoCall
       THEN /\ Returns(op, args, selected, r.call, NoOutcome, r.ret)
            /\ UNCHANGED workers
       ELSE /\ \E w \in DOMAIN workers :
                 workers' = [workers EXCEPT ![w].queue =
                               Append(@, Item(<<Entry(calls + 1, r.call.fn, key)>>, TRUE))]
            /\ Waits(op, args, selected, r.call)
    /\ calls' = calls + 1
    /\ UNCHANGED <<client, accounts_selector, transaction_selector, loaded, aborted,
                   lane, backend, startup_done, reported>>

pipeline_notify_transaction(transaction_info, slot) ==
    pipeline_forward("notify_transaction",
                     [transaction_info |-> transaction_info, slot |-> slot],
                     /\ transaction_selector # None
                     /\ is_transaction_selected(transaction_selector.val,
                                                transaction_info.is_vote,
                                                transaction_info.account_keys),
                     notify_transaction_result(transaction_selector, client,
                                               transaction_info, slot, OkOutcome),
                     slot)

pipeline_notify_block_metadata(block_info) ==
    pipeline_forward("notify_block_metadata", [block_info |-> block_info], TRUE,
                     notify_block_metadata_result(client, block_info, OkOutcome),
                     block_info.slot)

\* worker w writes its next unit of work to the backend
worker_write(w, outcome) ==
    /\ ~aborted
    /\ workers[w].queue # << >>
    /\ LET i == NextInQueue(workers[w].queue)
           item == workers[w].queue[i]
       IN /\ backend' = IF outcome = OkOutcome
                        THEN backend \o Written(item, w)
                        ELSE backend
          /\ workers' = [workers EXCEPT
                           ![w].queue = RemoveAt(@, i),
                           ![w].failed =
                               IF outcome # OkOutcome /\ ~item.blocking
                               THEN @ \o [j \in DOMAIN item.events |->
                                            [n |-> item.events[j].n, e |-> outcome.e]]
                               ELSE @]
          /\ host' = IF item.blocking THEN [host EXCEPT !.outcome = outcome] ELSE host
    /\ UNCHANGED <<client, accounts_selector, transaction_selector, loaded, last,
                   aborted, calls, lane, submitted, startup_done, reported>>

\* the slot-status lane writes its next event to the backend
lane_write(outcome) ==
    /\ ~aborted
    /\ lane # << >>
    /\ LET i == NextInQueue(lane)
       IN /\ backend' = IF outcome = OkOutcome
                        THEN backend \o Written(lane[i], 0)
                        ELSE backend
          /\ lane' = RemoveAt(lane, i)
          /\ host' = [host EXCEPT !.outcome = outcome]
    /\ UNCHANGED <<client, accounts_selector, transaction_selector, loaded, last,
                   aborted, calls, workers, submitted, startup_done, reported>>

\* what the callback returns to the host for the client's outcome
CallbackReturn(h, outcome) ==
    IF h.op = "update_account"
    THEN update_account_result(accounts_selector, client, h.args.account,
                               h.args.slot, h.args.is_startup, outcome).ret
    ELSE IF h.op = "update_slot_status"
    THEN update_slot_status_result(client, h.args.slot, h.args.parent,
                                   h.args.status, outcome).ret
    ELSE IF h.op = "notify_end_of_startup"
    THEN notify_end_of_startup_result(client, outcome).ret
    ELSE IF h.op = "notify_transaction"
    THEN notify_transaction_result(transaction_selector, client,
                                   h.args.transaction_info, h.args.slot, outcome).ret
    ELSE notify_block_metadata_result(client, h.args.block_info, outcome).ret

\* the failures of flushes that no call has reported yet
Unreported ==
    UNION { { workers[w].failed[i] : i \in DOMAIN workers[w].failed } :
            w \in DOMAIN workers }

\* the client call returns and the callback returns to the host; the
\* barrier returns when it is open and reports the failed flushes
pipeline_return ==
    /\ ~aborted
    /\ host # Idle
    /\ LET barrier == host.op = "notify_end_of_startup"
           outcome == IF ~barrier THEN host.outcome
                      ELSE IF Unreported = {} THEN OkOutcome
                      ELSE ErrOutcome((CHOOSE f \in Unreported : TRUE).e)
           ret == CallbackReturn(host, outcome)
       IN /\ IF barrier THEN BarrierOpen ELSE host.outcome # NoOutcome
          /\ last' = [op |-> host.op, args |-> host.args, selected |-> host.selected,
                      present |-> host.present, call |-> host.call,
                      outcome |-> outcome, ret |-> ret]
          /\ submitted' = [submitted EXCEPT ![Len(submitted)].ret = ret]
          /\ reported' = IF barrier
                         THEN reported \cup { f.n : f \in Unreported }
                         ELSE reported
          /\ workers' = IF barrier
                        THEN [w \in DOMAIN workers |->
                                [workers[w] EXCEPT !.failed = << >>]]
                        ELSE workers
    /\ host' = Idle
    /\ UNCHANGED <<client, accounts_selector, transaction_selector, loaded,
                   aborted, calls, lane, backend, startup_done>>

PipelineNext ==
    \/ \E config_file \in PipelineConfigs, connect_ok \in BOOLEAN :
          pipeline_on_load(config_file, connect_ok)
    \/ \E account \in PipelineAccounts, slot \in PipelineSlots :
          pipeline_update_account(account, slot)
    \/ \E slot \in PipelineSlots, status \in SlotStatuses :
          pipeline_update_slot_status(slot, status)
    \/ pipeline_notify_end_of_startup
    \/ \E transaction_info \in PipelineTransactions, slot \in PipelineSlots :
          pipeline_notify_transaction(transaction_info, slot)
    \/ \E block_info \in PipelineBlocks : pipeline_notify_block_metadata(block_info)
    \/ \E w \in DOMAIN workers, outcome \in WriteOutcomes : worker_write(w, outcome)
    \/ \E outcome \in WriteOutcomes : lane_write(outcome)
    \/ pipeline_return

PipelineSpec == Init /\ [][PipelineNext]_vars

(* ------------------------------ claims --------------------------------- *)

SelectorGuarded == {"update_account", "notify_transaction"}

Unguarded == {"update_slot_status", "notify_end_of_startup", "notify_block_metadata"}

\* the error kinds under which a failure of a client call is reported
WriteFailureKinds == {"AccountsUpdateError", "SlotStatusUpdateError"}

\* C1: update_account forwards an event to the client if and only if the
\* accounts selector selects it: an event that is not selected (or any
\* event while no selector is installed) returns success without a call
\* to the client, and a selected event with a client present calls
\* client.update_account with that event's account, slot and is_startup.
C1_ForwardIffSelected ==
    last.op = "update_account" =>
        /\ ~last.selected => last.ret = Ok /\ last.call = NoCall
        /\ last.selected /\ last.present =>
               last.call = ClientCall("update_account", last.args)
        /\ last.call # NoCall => last.selected

C1_Witness ==
    /\ last.op = "update_account"
    /\ last.selected
    /\ last.present
    /\ last.args.is_startup
    /\ last.args.slot = MaxSlot
    /\ last.call = ClientCall("update_account", last.args)

\* C2: when the configuration has no accounts_selector section,
\* account_data_notifications_enabled is false and no update_account call
\* is forwarded to the client.
C2_AbsentSectionDisables ==
    loaded.accounts_selector = Some(Null) =>
        /\ ~account_data_notifications_enabled
        /\ last.op = "update_account" => last.call = NoCall /\ last.ret = Ok

C2_Witness ==
    /\ loaded.accounts_selector = Some(Null)
    /\ client # None
    /\ last.op = "update_account"
    /\ last.ret = Ok

\* C3: with accounts_selector {accounts: ["*"]} and no transaction_selector
\* section, once a client is installed: account notifications are enabled,
\* transaction notifications are disabled, every update_account call is
\* forwarded to the client and every notify_transaction call is dropped
\* with no call to the client.
C3_WildcardAccountsNoTransactions ==
    /\ loaded.accounts_selector = Some(Obj([accounts |-> Wildcard]))
    /\ loaded.transaction_selector = Some(Null)
    /\ client # None
    =>
    /\ account_data_notifications_enabled
    /\ ~transaction_notifications_enabled
    /\ last.op = "update_account" =>
           last.call = ClientCall("update_account", last.args)
    /\ last.op = "notify_transaction" => last.call = NoCall /\ last.ret = Ok

C3_Witness ==
    /\ loaded.accounts_selector = Some(Obj([accounts |-> Wildcard]))
    /\ loaded.transaction_selector = Some(Null)
    /\ client # None
    /\ last.op = "notify_transaction"
    /\ last.args.transaction_info.is_vote
    /\ last.ret = Ok
    /\ last.call = NoCall

\* C4: for both selector-guarded event types selection is evaluated first:
\* an event that is not selected returns the "not selected" success in
\* every client state, also when no client is present.
C4_SelectionBeforeClient ==
    last.op \in SelectorGuarded /\ ~last.selected =>
        last.ret = Ok /\ last.call = NoCall

\* C5: whenever no client is present, update_slot_status,
\* notify_end_of_startup, notify_block_metadata, and update_account /
\* notify_transaction for a selected event return DataStoreConnectionError
\* without a call to the client, and no failure of a client call is
\* reported under that error kind.
C5_ConnectionAbsent ==
    /\ /\ ~last.present
       /\ \/ last.op \in Unguarded
          \/ last.op \in SelectorGuarded /\ last.selected
       => last.ret = DataStoreConnectionError /\ last.call = NoCall
    /\ last.call # NoCall /\ last.ret \notin {Ok, NoReturn} =>
           /\ last.ret.kind \in WriteFailureKinds
           /\ last.ret.kind # DataStoreConnectionError.kind

C5_Witness ==
    /\ last.op = "update_account"
    /\ last.selected
    /\ ~last.present
    /\ last.ret = DataStoreConnectionError
    /\ last.call = NoCall

\* the last call was one that submits to the client: an event the
\* selectors do not guard, or a guarded event its selector selected
Submitted ==
    \/ last.op \in Unguarded
    \/ last.op \in SelectorGuarded /\ last.selected

\* C6: after on_unload on a connected plugin the client is Closed, and
\* every later submit-type call is reported as DataStoreConnectionError
\* and is not passed to the closed client.
C6_ClosedClientNotCalled ==
    client # None /\ client.val.state = "Closed" /\ Submitted =>
        last.ret = DataStoreConnectionError /\ last.call = NoCall

\* C7: shutdown is idempotent: client.join is executed at most once on a
\* client; a second on_unload does not call it again.
C7_JoinAtMostOnce ==
    client # None => client.val.joins <= 1

\* the error category the claim assigns to each event type
ErrorCategory ==
    [update_account |-> "AccountsUpdateError",
     update_slot_status |-> "SlotStatusUpdateError",
     notify_transaction |-> "TransactionUpdateError",
     notify_block_metadata |-> "BlockMetadataUpdateError"]

\* C8: an error of a client call is reported under the error category of
\* the event type that caused it and carries the client's message.
C8_CategoryPerEventType ==
    last.op \in DOMAIN ErrorCategory /\ last.outcome.r = "err" =>
        /\ last.ret.kind = ErrorCategory[last.op]
        /\ last.ret.msg[2] = last.outcome.e

\* a selected account update was passed to a connected client whose fatal
\* policy is inactive, and the write failed
AccountWriteFailed ==
    /\ last.op = "update_account"
    /\ last.outcome.r = "err"
    /\ client # None
    /\ client.val.state = "Connected"
    /\ ~client.val.panic_on_db_errors

\* a further account update that the client is given and that succeeds
UpdateSucceeds ==
    \E account \in Accounts, slot \in Slots, is_startup \in BOOLEAN :
        /\ OkOutcome \in Outcomes(client)
        /\ update_account(account, slot, is_startup, OkOutcome)
        /\ last'.call = ClientCall("update_account", last'.args)
        /\ last'.ret = Ok

\* C9: with the fatal policy inactive, a write failure on a selected
\* account update is returned as an AccountsUpdateError carrying the
\* client's message; the call leaves client and selectors as they were,
\* the next submit call is passed to the client, and an account update
\* can then succeed.
C9_NonFatalFailureKeepsPipeline ==
    /\ [](AccountWriteFailed =>
             /\ last.ret.kind = "AccountsUpdateError"
             /\ last.ret.msg[2] = last.outcome.e
             /\ ~aborted
             /\ calls < MaxCalls => ENABLED UpdateSucceeds)
    /\ [][last'.op = "update_account" /\ last'.outcome.r = "err" =>
             UNCHANGED <<client, accounts_selector, transaction_selector>>]_vars
    /\ [][AccountWriteFailed /\ Submitted' => last'.call # NoCall]_vars

C9_Witness ==
    /\ AccountWriteFailed
    /\ last.ret.kind = "AccountsUpdateError"
    /\ last.outcome.e = "Permanent"
    /\ ENABLED UpdateSucceeds

\* C10: with the fatal policy active, a write failure on a submitted
\* account update never makes update_account return an error result:
\* the process is ended and nothing is returned to the caller.
C10_FatalPolicyNeverReturnsError ==
    /\ last.op = "update_account"
    /\ client # None
    /\ client.val.state = "Connected"
    /\ client.val.panic_on_db_errors
    =>
    /\ last.ret.kind # "AccountsUpdateError"
    /\ last.outcome.r \notin {"ok", "none"} => last.ret = NoReturn /\ aborted

C10_Witness ==
    /\ last.op = "update_account"
    /\ client # None
    /\ client.val.panic_on_db_errors
    /\ last.call = ClientCall("update_account", last.args)
    /\ last.outcome = FatalOutcome
    /\ last.ret = NoReturn
    /\ aborted

\* C11: if on_load fails for any reason (config file unreadable, config
\* not in the expected format, client not established) it returns an error
\* result and installs no client.
C11_FailedLoadReturnsError ==
    last.op = "on_load" /\ last.ret # Ok =>
        /\ last.ret # NoReturn
        /\ ~last.present => client = None

\* C12: a client that is installed is replaced only after it has been
\* drained and closed by on_unload; a second on_load never overwrites a
\* live client.
C12_ClientNeverOverwritten ==
    [][client # None /\ client' # None /\ client'.val.id # client.val.id =>
           client.val.state = "Closed"]_vars

\* C16: selector construction has no failure mode: for every shape of the
\* accounts_selector / transaction_selector values both constructors
\* return a selector and on_load installs it; nothing panics.
C16_SelectorConstructionTotal ==
    last.op = "on_load" /\ last.args.file = "ok" /\ last.args.json =>
        /\ ~create_accounts_selector_from_config(last.args.doc).panic
        /\ ~create_transaction_selector_from_config(last.args.doc).panic
        /\ accounts_selector # None
        /\ transaction_selector # None

\* C17: selectors are installed only after the configuration has been
\* validated: an on_load that fails leaves accounts_selector and
\* transaction_selector, and so both enablement queries, as they were.
C17_FailedLoadKeepsSelectors ==
    [][last'.op = "on_load" /\ last'.ret # Ok =>
           /\ UNCHANGED <<accounts_selector, transaction_selector>>
           /\ account_data_notifications_enabled' = account_data_notifications_enabled
           /\ transaction_notifications_enabled' = transaction_notifications_enabled]_vars

EventCallbacks == SelectorGuarded \cup Unguarded

Queries == {"account_data_notifications_enabled", "transaction_notifications_enabled"}

\* C18: every event callback and both enablement queries leave the
\* plugin's own state unchanged on every outcome: the selectors are the
\* same and client presence is the same; only on_load and on_unload
\* change it.
C18_CallbacksKeepPluginState ==
    [][last'.op \in EventCallbacks \cup Queries =>
           /\ UNCHANGED <<accounts_selector, transaction_selector>>
           /\ (client' = None) = (client = None)]_vars

C18_Witness ==
    /\ last.op = "update_account"
    /\ last.outcome.r = "err"
    /\ last.ret.kind = "AccountsUpdateError"
    /\ client # None
    /\ accounts_selector # None
    /\ transaction_selector # None

\* the client function each event callback passes its event to
ClientFunction ==
    [update_account |-> "update_account",
     update_slot_status |-> "update_slot_status",
     notify_end_of_startup |-> "notify_end_of_startup",
     notify_transaction |-> "log_transaction_info",
     notify_block_metadata |-> "update_block_metadata"]

\* C19: while a client is present every update_slot_status and every
\* notify_block_metadata call is passed to the client, whatever the
\* selectors say, also when both are disabled.
C19_SlotAndBlockUnfiltered ==
    last.op \in {"update_slot_status", "notify_block_metadata"} /\ last.present =>
        last.call = ClientCall(ClientFunction[last.op], last.args)

C19_Witness ==
    /\ last.op = "notify_block_metadata"
    /\ last.present
    /\ ~account_data_notifications_enabled
    /\ ~transaction_notifications_enabled
    /\ last.call = ClientCall("update_block_metadata", last.args)
    /\ last.ret = Ok

\* C20: each callback makes at most one call to the client, of the kind
\* matching the event type, and returns success exactly when the event was
\* not selected or the client call returned success.
C20_SuccessIffUnselectedOrClientOk ==
    last.op \in EventCallbacks =>
        /\ last.call # NoCall => last.call.fn = ClientFunction[last.op]
        /\ (last.ret = Ok) =
               \/ last.op \in SelectorGuarded /\ ~last.selected
               \/ last.outcome.r = "ok"

(* ---------------------- claims about the pipeline ---------------------- *)

IsSlotStatusCall(s) == s.op = "update_slot_status"

IsSlotStatusWrite(b) == b.fn = "update_slot_status"

\* the update_slot_status calls of the host, in the order it made them
SlotStatusCalls == SelectSeq(submitted, IsSlotStatusCall)

\* the slot-status events the backend has observed, in the order it saw them
SlotStatusWrites == SelectSeq(backend, IsSlotStatusWrite)

WrittenCalls == { backend[i].n : i \in DOMAIN backend }

\* notify_end_of_startup reached the client and has returned to the host
EndOfStartupReturned ==
    /\ host = Idle
    /\ last.op = "notify_end_of_startup"
    /\ last.present

\* C14: notify_end_of_startup is a barrier: when it has returned, with
\* success or with an error, no worker holds buffered or unwritten startup
\* events, and every account event accepted with is_startup = true before
\* it has been written to the backend or its failure has been reported.
C14_EndOfStartupIsBarrier ==
    EndOfStartupReturned =>
       /\ \A w \in DOMAIN workers :
             workers[w].buffer = << >> /\ workers[w].queue = << >>
       /\ \A k \in DOMAIN submitted :
             ( /\ submitted[k].op = "update_account"
               /\ submitted[k].args.is_startup
               /\ submitted[k].ret = Ok )
             => submitted[k].n \in WrittenCalls \cup reported

\* the barrier has returned success after startup account events were
\* buffered and written
C14_Witness ==
    /\ EndOfStartupReturned
    /\ last.ret = Ok
    /\ \E i \in DOMAIN backend : backend[i].fn = "update_account"

====
